---- MODULE Spec2Model ----
(***************************************************************************)
(* Lost & Found announcements board (tech_expo-3.py).                      *)
(*                                                                         *)
(* Text is modelled as a sequence of one-character strings, so that        *)
(* lower(), strip(), isdigit(), strftime(), CSV reading and the keyword    *)
(* match are computed character by character.  A table is a sequence of    *)
(* rows; a row maps each of the 13 column names to a cell.                 *)
(***************************************************************************)
EXTENDS Integers, Sequences, FiniteSets, TLC

VARIABLES
    file,        \* announcements.csv: [exists, header, rows]
    df,          \* the module-level DataFrame of the latest script run
    imageFiles,  \* the paths written under announcement_images/
    page,        \* st.session_state.page
    msg,         \* the st.error / st.success / st.info message of the latest run
    last,        \* history: what the latest script run was given and found
    shown,       \* the rows search_page displayed, in display order
    wdf,         \* per concurrent session: the DataFrame its run loaded
    wpc,         \* per concurrent session: "idle" or "loaded"
    wlog         \* per concurrent session: history of its latest finished run

vars == <<file, df, imageFiles, page, msg, last, shown, wdf, wpc, wlog>>

(***************************************************************************)
(* Bounds of the model.                                                    *)
(***************************************************************************)
MaxRows == 2       \* rows a table may hold before Submit is cut off
MaxImages == 1     \* image files that may be written before uploads are cut off
MaxRuns == 2       \* script runs of each of the two concurrent sessions

(***************************************************************************)
(* Characters and text.                                                    *)
(***************************************************************************)
UpperChars == <<"A","B","C","D","E","F","G","H","I","J","K","L","M",
                "N","O","P","Q","R","S","T","U","V","W","X","Y","Z">>
LowerChars == <<"a","b","c","d","e","f","g","h","i","j","k","l","m",
                "n","o","p","q","r","s","t","u","v","w","x","y","z">>
DigitChars == <<"0","1","2","3","4","5","6","7","8","9">>
Whitespace == {" ", "\t", "\n"}

\* The characters the model uses, in code-point order (str comparison).
CodeOrder == <<"\t", "\n", " ", "-", ".", "/">> \o DigitChars \o UpperChars \o LowerChars

IndexIn(seq, c) == CHOOSE i \in 1..Len(seq) : seq[i] = c
Has(seq, c) == \E i \in 1..Len(seq) : seq[i] = c

\* str.lower(), one character
LowerChar(c) == IF Has(UpperChars, c) THEN LowerChars[IndexIn(UpperChars, c)] ELSE c
\* str.lower()
RECURSIVE Lower(_)
Lower(s) == IF s = <<>> THEN <<>> ELSE <<LowerChar(Head(s))>> \o Lower(Tail(s))

\* str.isdigit(): non-empty and every character a digit
IsDigit(s) == Len(s) > 0 /\ \A i \in 1..Len(s) : Has(DigitChars, s[i])

RECURSIVE LStrip(_)
LStrip(s) == IF s # <<>> /\ Head(s) \in Whitespace THEN LStrip(Tail(s)) ELSE s
RECURSIVE RStrip(_)
RStrip(s) == IF s # <<>> /\ s[Len(s)] \in Whitespace
             THEN RStrip(SubSeq(s, 1, Len(s) - 1)) ELSE s
\* str.strip()
Strip(s) == RStrip(LStrip(s))

\* str(n) for n >= 0
RECURSIVE IntToText(_)
IntToText(n) == IF n < 10 THEN <<DigitChars[n + 1]>>
                ELSE Append(IntToText(n \div 10), DigitChars[(n % 10) + 1])

\* zero-padded decimal of width w (%Y, %m, %d)
RECURSIVE Pad(_, _)
Pad(n, w) == IF w = 0 THEN <<>> ELSE Append(Pad(n \div 10, w - 1), DigitChars[(n % 10) + 1])

\* str < str, by code point
RECURSIVE TextLess(_, _)
TextLess(a, b) ==
    IF b = <<>> THEN FALSE
    ELSE IF a = <<>> THEN TRUE
    ELSE IF Head(a) = Head(b) THEN TextLess(Tail(a), Tail(b))
    ELSE IndexIn(CodeOrder, Head(a)) < IndexIn(CodeOrder, Head(b))

(***************************************************************************)
(* Calendar dates: [y, m, d].                                              *)
(***************************************************************************)
IsLeap(y) == (y % 4 = 0 /\ y % 100 # 0) \/ y % 400 = 0
DaysIn(y, m) == IF m = 2 THEN (IF IsLeap(y) THEN 29 ELSE 28)
                ELSE IF m \in {4, 6, 9, 11} THEN 30 ELSE 31

\* date.strftime("%Y-%m-%d")
Strftime(date) == Pad(date.y, 4) \o <<"-">> \o Pad(date.m, 2) \o <<"-">> \o Pad(date.d, 2)

\* A Timestamp is modelled by an integer that orders as the calendar does.
NaT == -1
Timestamp(date) == date.y * 10000 + date.m * 100 + date.d

\* float('nan'), the missing cell of a DataFrame; it is no text
NaN == <<"float:nan">>

DigitVal(c) == IndexIn(DigitChars, c) - 1
Num(s) == IF Len(s) = 4 THEN DigitVal(s[1]) * 1000 + DigitVal(s[2]) * 100
                             + DigitVal(s[3]) * 10 + DigitVal(s[4])
          ELSE DigitVal(s[1]) * 10 + DigitVal(s[2])

\* pd.to_datetime(cell, errors="coerce") of one cell holding YYYY-MM-DD text
ToDatetime(cell) ==
    IF cell = NaN \/ Len(cell) # 10 THEN NaT
    ELSE IF cell[5] # "-" \/ cell[8] # "-" THEN NaT
    ELSE IF ~IsDigit(SubSeq(cell, 1, 4) \o SubSeq(cell, 6, 7) \o SubSeq(cell, 9, 10)) THEN NaT
    ELSE LET y == Num(SubSeq(cell, 1, 4))
             m == Num(SubSeq(cell, 6, 7))
             d == Num(SubSeq(cell, 9, 10))
         IN IF y >= 1 /\ m \in 1..12 /\ d >= 1 /\ d <= DaysIn(y, m)
            THEN Timestamp([y |-> y, m |-> m, d |-> d]) ELSE NaT

(***************************************************************************)
(* Configuration.                                                          *)
(***************************************************************************)
TYPE_OPTIONS == << <<"L","o","s","t">>, <<"F","o","u","n","d">> >>
CATEGORY_OPTIONS ==
  << <<"P","e","t","s"," ","&"," ","A","n","i","m","a","l","s">>,
     <<"E","l","e","c","t","r","o","n","i","c","s">>,
     <<"B","a","g","s"," ","&"," ","W","a","l","l","e","t","s">>,
     <<"J","e","w","e","l","r","y">>,
     <<"D","o","c","u","m","e","n","t","s"," ","&"," ","C","a","r","d","s">>,
     <<"C","l","o","t","h","i","n","g"," ","&"," ","A","c","c","e","s","s","o","r","i","e","s">>,
     <<"P","e","r","s","o","n","a","l"," ","I","t","e","m","s">>,
     <<"O","t","h","e","r">> >>
CITY_OPTIONS ==
  << <<"K","u","w","a","i","t"," ","C","i","t","y">>,
     <<"S","a","l","m","i","y","a">>,
     <<"H","a","w","a","l","l","y">>,
     <<"J","a","h","r","a">>,
     <<"F","a","r","w","a","n","i","y","a">>,
     <<"A","h","m","a","d","i">>,
     <<"M","u","b","a","r","a","k"," ","A","l","-","K","a","b","e","e","r">> >>
IMAGES_FOLDER == <<"a","n","n","o","u","n","c","e","m","e","n","t","_","i","m","a","g","e","s">>
All == <<"A","l","l">>

columns == <<"ID", "Type", "Category", "City", "Description",
             "Image1", "Image2", "Image3", "Phone",
             "Date", "EventDate", "DeletePassword", "Resolved">>
ColumnSet == {columns[i] : i \in 1..Len(columns)}

(***************************************************************************)
(* The CSV file and the DataFrame.                                         *)
(***************************************************************************)
NoFile == [exists |-> FALSE, header |-> <<>>, rows |-> <<>>]

\* The field texts pd.read_csv reads as missing (its default na_values;
\* dtype=str does not switch them off).
NaValues == { <<>>, <<"N","A">>, <<"N","/","A">>, <<"N","U","L","L">>, <<"N","a","N">>,
              <<"n","/","a">>, <<"n","a","n">>, <<"n","u","l","l">> }

\* one field of pd.read_csv(DATA_FILE, dtype=str)
ReadCell(t) == IF t \in NaValues THEN NaN ELSE t

\* fillna("False").astype(str).str.lower().map({...}).fillna(False).astype(bool)
CoerceResolved(cell) ==
    LET s == Lower(IF cell = NaN THEN <<"F","a","l","s","e">> ELSE cell)
    IN s \in { <<"t","r","u","e">>, <<"1">> }

\* df[c] of the frame read from f: the field read, or "" for a column the
\* file does not have
ReadColumn(f, i, c) == IF Has(f.header, c) THEN ReadCell(f.rows[i][c]) ELSE <<>>

\* row i of the frame load_data returns: df[columns], Resolved coerced
ReadRow(f, i) ==
    [ID |-> ReadColumn(f, i, "ID"), Type |-> ReadColumn(f, i, "Type"),
     Category |-> ReadColumn(f, i, "Category"), City |-> ReadColumn(f, i, "City"),
     Description |-> ReadColumn(f, i, "Description"),
     Image1 |-> ReadColumn(f, i, "Image1"), Image2 |-> ReadColumn(f, i, "Image2"),
     Image3 |-> ReadColumn(f, i, "Image3"), Phone |-> ReadColumn(f, i, "Phone"),
     Date |-> ReadColumn(f, i, "Date"), EventDate |-> ReadColumn(f, i, "EventDate"),
     DeletePassword |-> ReadColumn(f, i, "DeletePassword"),
     Resolved |-> CoerceResolved(ReadColumn(f, i, "Resolved"))]

RECURSIVE ReadRows(_, _)
ReadRows(f, i) == IF i > Len(f.rows) THEN <<>> ELSE <<ReadRow(f, i)>> \o ReadRows(f, i + 1)

load_data(f) == IF f.exists THEN ReadRows(f, 1) ELSE <<>>

\* one text field of df.to_csv: a missing value is written as the empty field
WriteCell(cell) == IF cell = NaN THEN <<>> ELSE cell
\* a bool is written as True / False
WriteBool(b) == IF b THEN <<"T","r","u","e">> ELSE <<"F","a","l","s","e">>

WriteRow(r) ==
    [ID |-> WriteCell(r.ID), Type |-> WriteCell(r.Type),
     Category |-> WriteCell(r.Category), City |-> WriteCell(r.City),
     Description |-> WriteCell(r.Description),
     Image1 |-> WriteCell(r.Image1), Image2 |-> WriteCell(r.Image2),
     Image3 |-> WriteCell(r.Image3), Phone |-> WriteCell(r.Phone),
     Date |-> WriteCell(r.Date), EventDate |-> WriteCell(r.EventDate),
     DeletePassword |-> WriteCell(r.DeletePassword),
     Resolved |-> WriteBool(r.Resolved)]

RECURSIVE WriteRows(_)
WriteRows(d) == IF d = <<>> THEN <<>> ELSE <<WriteRow(Head(d))>> \o WriteRows(Tail(d))

\* df.to_csv(DATA_FILE, index=False): the whole file is replaced
save_data(d) == [exists |-> TRUE, header |-> columns, rows |-> WriteRows(d)]

\* os.path.join(IMAGES_FOLDER, f"{timestamp}_{uuid}_{file.name}"); stamp is
\* the timestamp and uuid4 part
ImagePath(stamp, name) == IMAGES_FOLDER \o <<"/">> \o stamp \o <<"_">> \o name

\* save_images(files): the paths of files[:3], padded with "" to three
save_images(files, stamps) ==
    LET n == IF Len(files) < 3 THEN Len(files) ELSE 3
    IN [i \in 1..3 |-> IF i <= n THEN ImagePath(stamps[i], files[i]) ELSE <<>>]

\* the files save_images writes
WrittenImages(files, stamps) ==
    {save_images(files, stamps)[i] : i \in 1..3} \ {<<>>}

(***************************************************************************)
(* search_page: the filters.                                               *)
(***************************************************************************)
\* re.search(pat, text, re.IGNORECASE) for a pattern made of literal
\* characters and ".", which matches any character but a newline
RegexSearch(pat, text) ==
    \E k \in 0..(Len(text) - Len(pat)) :
        \A j \in 1..Len(pat) :
            IF pat[j] = "." THEN text[k + j] # "\n"
            ELSE LowerChar(pat[j]) = LowerChar(text[k + j])

\* Series.str.contains(pat, case=False, na=False), one cell
StrContains(cell, pat) == cell # NaN /\ RegexSearch(pat, cell)

\* df[mask] is SelectSeq: the rows for which the mask holds, in order
FilterType(d, a) ==
    IF a.filter_type # All
    THEN SelectSeq(d, LAMBDA r : r.Type = Lower(a.filter_type)) ELSE d
FilterCategory(d, a) ==
    IF a.filter_category # All
    THEN SelectSeq(d, LAMBDA r : r.Category = a.filter_category) ELSE d
FilterCity(d, a) ==
    IF a.filter_city # All
    THEN SelectSeq(d, LAMBDA r : r.City = a.filter_city) ELSE d
FilterKeyword(d, a) ==
    IF a.search_query # <<>>
    THEN SelectSeq(d, LAMBDA r : StrContains(r.Description, a.search_query)) ELSE d

\* variant of the date mask that leaves the last day out (used to show that
\* C6 depends on <=)
InRangeEndExcluded(cell, a) ==
    /\ ToDatetime(cell) # NaT
    /\ ToDatetime(cell) >= Timestamp(a.start_date)
    /\ ToDatetime(cell) < Timestamp(a.end_date)

\* the date mask; a comparison with NaT is False
InRange(cell, a) ==
    /\ ToDatetime(cell) # NaT
    /\ ToDatetime(cell) >= Timestamp(a.start_date)
    /\ ToDatetime(cell) <= Timestamp(a.end_date)
FilterDate(d, a) ==
    IF d # <<>> THEN SelectSeq(d, LAMBDA r : InRange(r.EventDate, a)) ELSE d

\* the rows left after all filters, in table order (the rows keep their
\* EventDate text here; the code shows it converted)
Filtered(d, a) == FilterDate(FilterKeyword(FilterCity(FilterCategory(FilterType(d, a), a), a), a), a)

\* variant of the order that sorts ascending (used to show that C5 depends
\* on ascending=False)
DateNotAfter(a, b) ==
    IF b = NaN THEN TRUE
    ELSE IF a = NaN THEN FALSE
    ELSE ~TextLess(b, a)

\* a before b under sort_values("Date", ascending=False): a missing Date
\* sorts last
DateNotBefore(a, b) ==
    IF b = NaN THEN TRUE
    ELSE IF a = NaN THEN FALSE
    ELSE ~TextLess(a, b)

\* the orders sort_values("Date", ascending=False) may give (it is not a
\* stable sort: rows of equal Date come in any order)
SortValues(d) ==
    LET n == Len(d)
        perms == {p \in [1..n -> 1..n] : \A i, j \in 1..n : i # j => p[i] # p[j]}
    IN {[i \in 1..n |-> d[p[i]]] : p \in
          {q \in perms : \A i \in 1..n : \A j \in 1..n :
                i < j => DateNotBefore(d[q[i]].Date, d[q[j]].Date)}}

\* df.drop(df[df["ID"] == id].index): NaN equals nothing
DropID(d, id) == SelectSeq(d, LAMBDA r : ~(id # NaN /\ r.ID = id))

(***************************************************************************)
(* The inputs the model draws from.                                        *)
(***************************************************************************)
Photo == <<"c",".","p","n","g">>
Day(y, m, d) == [y |-> y, m |-> m, d |-> d]

\* the report form, filled in so that it passes every check
ValidForm == [post_type |-> TYPE_OPTIONS[1], category |-> CATEGORY_OPTIONS[2],
              city |-> CITY_OPTIONS[3], description |-> <<"b","a","g">>,
              event_date |-> Day(2024, 3, 1),
              phone |-> <<"1","2","3","4","5","6","7","8">>,
              delete_password |-> <<"p">>, uploaded_files |-> <<>>,
              today |-> Day(2024, 3, 2)]
\* forms that pass the checks
ValidInputs ==
    {ValidForm,
     [ValidForm EXCEPT !.description = <<"N","A">>, !.post_type = TYPE_OPTIONS[2],
                       !.uploaded_files = <<Photo>>],
     [ValidForm EXCEPT !.delete_password = <<" ">>]}
\* forms that fail one check each
InvalidInputs ==
    {[ValidForm EXCEPT !.description = <<>>, !.uploaded_files = <<Photo>>],
     [ValidForm EXCEPT !.phone = <<"1","2","3","4","5","6","7">>],
     [ValidForm EXCEPT !.phone = <<"1","2","3","4","5","6","7","x">>],
     [ValidForm EXCEPT !.phone = <<"1","2","3","4","5","6","7","8","9">>],
     [ValidForm EXCEPT !.delete_password = <<>>, !.uploaded_files = <<Photo>>]}
SubmitInputs == ValidInputs \cup InvalidInputs
EnteredInputs == {<<>>, <<"p">>, <<"P">>, <<" ","p">>}

EmptyFilter == [search_query |-> <<>>, filter_type |-> All, filter_category |-> All,
                filter_city |-> All, start_date |-> Day(2024, 1, 1),
                end_date |-> Day(2024, 12, 31)]
BrowseInputs == {EmptyFilter}

(***************************************************************************)
(* History records.                                                        *)
(***************************************************************************)
NoInput == [post_type |-> <<>>, category |-> <<>>, city |-> <<>>, description |-> <<>>,
            event_date |-> Day(1, 1, 1), phone |-> <<>>, delete_password |-> <<>>,
            uploaded_files |-> <<>>, today |-> Day(1, 1, 1)]
NoRow == [c \in ColumnSet |-> IF c = "Resolved" THEN FALSE ELSE <<>>]
NoRun == [op |-> "none", pre |-> NoFile, input |-> NoInput,
          args |-> EmptyFilter, row |-> NoRow, entered |-> <<>>, saves |-> 0,
          preImages |-> {}]

(***************************************************************************)
(* report_page.                                                            *)
(***************************************************************************)
\* variant of the checks that tests only the length of the phone (used to
\* show that C4 depends on the isdigit check)
ValidationErrorLengthOnly(in) ==
    IF in.description = <<>> THEN "Please enter a description."
    ELSE IF Len(in.phone) # 8 THEN "Phone number must be exactly 8 digits."
    ELSE IF in.delete_password = <<>> THEN "Please set a delete password."
    ELSE ""

\* the checks of the Submit button, in order; "" when the input passes
ValidationError(in) ==
    IF in.description = <<>> THEN "Please enter a description."
    ELSE IF Len(in.phone) # 8 \/ ~IsDigit(in.phone)
         THEN "Phone number must be exactly 8 digits."
    ELSE IF in.delete_password = <<>> THEN "Please set a delete password."
    ELSE ""

new_post(d, in, image_paths) ==
    [ID |-> IntToText(Len(d) + 1),
     Type |-> Lower(in.post_type),
     Category |-> in.category,
     City |-> in.city,
     Description |-> in.description,
     Image1 |-> image_paths[1],
     Image2 |-> image_paths[2],
     Image3 |-> image_paths[3],
     Phone |-> in.phone,
     Date |-> Strftime(in.today),
     EventDate |-> Strftime(in.event_date),
     DeletePassword |-> Strip(in.delete_password),
     Resolved |-> FALSE]

\* variant of the append that writes at the last label in use (used to show
\* that C9 depends on the row being added at len(df))
AppendRowAtLast(d, row) == IF d = <<>> THEN <<row>> ELSE [d EXCEPT ![Len(d)] = row]

\* df.loc[len(df)] = new_post, on the RangeIndex a fresh load has
AppendRow(d, row) == Append(d, row)

\* the stamps (timestamp and uuid4) of the files of one upload: distinct,
\* and none in use
FreshStamps(files) ==
    LET n == IF Len(files) < 3 THEN Len(files) ELSE 3
    IN {st \in [1..n -> {IntToText(k) : k \in 1..MaxImages}] :
          /\ \A i, j \in 1..n : i # j => st[i] # st[j]
          /\ \A i \in 1..n : ImagePath(st[i], files[i]) \notin imageFiles}

Submit ==
    /\ page = "report"
    /\ \E loaded \in {load_data(file)}, in \in SubmitInputs :
           LET run == [NoRun EXCEPT !.op = "submit", !.pre = file, !.input = in,
                                    !.preImages = imageFiles]
           IN IF ValidationError(in) # ""
              THEN /\ msg' = ValidationError(in)
                   /\ df' = loaded
                   /\ last' = run
                   /\ UNCHANGED <<file, imageFiles, page>>
              ELSE /\ Len(loaded) < MaxRows
                   /\ \E stamps \in FreshStamps(in.uploaded_files) :
                        /\ imageFiles' = imageFiles \cup WrittenImages(in.uploaded_files, stamps)
                        /\ df' = AppendRow(loaded, new_post(loaded, in,
                                               save_images(in.uploaded_files, stamps)))
                   /\ file' = save_data(df')
                   /\ msg' = "Announcement posted successfully!"
                   /\ page' = "home"
                   /\ last' = [run EXCEPT !.saves = 1]
    /\ shown' = <<>>
    /\ UNCHANGED <<wdf, wpc, wlog>>

\* the Back to Home button of report_page
BackHome ==
    /\ page = "report"
    /\ page' = "home"
    /\ df' = load_data(file)
    /\ msg' = ""
    /\ shown' = <<>>
    /\ last' = [NoRun EXCEPT !.op = "nav", !.pre = file, !.preImages = imageFiles]
    /\ UNCHANGED <<file, imageFiles, wdf, wpc, wlog>>

(***************************************************************************)
(* home_page.                                                              *)
(***************************************************************************)
GoTo(target) ==
    /\ page = "home"
    /\ page' = target
    /\ df' = load_data(file)
    /\ msg' = ""
    /\ shown' = <<>>
    /\ last' = [NoRun EXCEPT !.op = "nav", !.pre = file, !.preImages = imageFiles]
    /\ UNCHANGED <<file, imageFiles, wdf, wpc, wlog>>
GoSearch == GoTo("search")
GoReport == GoTo("report")

(***************************************************************************)
(* search_page.                                                            *)
(***************************************************************************)
\* a run of search_page in which no Delete button is pressed
SearchPage(A) ==
    /\ page = "search"
    /\ \E loaded \in {load_data(file)}, a \in A, back \in BOOLEAN :
           LET f == Filtered(loaded, a)
           IN /\ shown' \in (IF f = <<>> THEN {<<>>} ELSE SortValues(f))
              /\ msg' = IF f = <<>> THEN "No announcements match your filters." ELSE ""
              /\ page' = IF back THEN "home" ELSE page
              /\ df' = loaded
              /\ last' = [NoRun EXCEPT !.op = "search", !.pre = file, !.args = a,
                                       !.preImages = imageFiles]
    /\ UNCHANGED <<file, imageFiles, wdf, wpc, wlog>>

\* variant of the password check that ignores letter case (used to show
\* that C2 depends on the exact comparison)
PasswordMatchesAnyCase(entered_password, row) ==
    Lower(entered_password) = Lower(row.DeletePassword)

\* the password check of the Delete button
PasswordMatches(entered_password, row) == entered_password = row.DeletePassword

\* a run of search_page in which the Delete button of one displayed row is
\* pressed (every row the filters leave has one, whatever the display order;
\* what such a run displays is not recorded)
DeleteClick(A) ==
    /\ page = "search"
    /\ \E loaded \in {load_data(file)}, a \in A :
           LET f == Filtered(loaded, a)
           IN \E k \in 1..Len(f), entered_password \in EnteredInputs :
               LET row == f[k]
                   run == [NoRun EXCEPT !.op = "delete", !.pre = file, !.args = a,
                                        !.row = row, !.entered = entered_password,
                                        !.preImages = imageFiles]
               IN IF PasswordMatches(entered_password, row)
                  THEN /\ df' = DropID(loaded, row.ID)
                       /\ file' = save_data(df')
                       /\ msg' = "Announcement deleted successfully!"
                       /\ last' = [run EXCEPT !.saves = 1]
                  ELSE /\ df' = loaded
                       /\ file' = file
                       /\ msg' = "Incorrect password. Cannot delete this announcement."
                       /\ last' = run
    /\ shown' = <<>>
    /\ UNCHANGED <<imageFiles, page, wdf, wpc, wlog>>

Browse == SearchPage(BrowseInputs)
Delete == DeleteClick(BrowseInputs)

(***************************************************************************)
(* One session, starting with no announcements.csv.                        *)
(***************************************************************************)
Init ==
    /\ file = NoFile
    /\ df = <<>>
    /\ imageFiles = {}
    /\ page = "home"
    /\ msg = ""
    /\ last = NoRun
    /\ shown = <<>>
    /\ wdf = <<>>
    /\ wpc = <<>>
    /\ wlog = <<>>

Next == GoSearch \/ GoReport \/ Submit \/ BackHome \/ Browse \/ Delete

Spec == Init /\ [][Next]_vars

(***************************************************************************)
(* search_page over tables that were not written by this program alone:    *)
(* announcements.csv may come from elsewhere (load_data backfills the      *)
(* columns it lacks), so fields may be missing or hold any text.           *)
(***************************************************************************)
FilterRows == 2    \* rows of the files the searches start from

CsvRow == [ID |-> <<"1">>, Type |-> <<"l","o","s","t">>, Category |-> CATEGORY_OPTIONS[2],
           City |-> CITY_OPTIONS[3], Description |-> <<"A","b">>,
           Image1 |-> <<>>, Image2 |-> <<>>, Image3 |-> <<>>,
           Phone |-> <<"1","2","3","4","5","6","7","8">>,
           Date |-> Strftime(Day(2024, 3, 2)), EventDate |-> Strftime(Day(2024, 3, 1)),
           DeletePassword |-> <<"p">>, Resolved |-> <<"F","a","l","s","e">>]
SampleRows ==
    {CsvRow,
     [CsvRow EXCEPT !.Type = <<"f","o","u","n","d">>, !.City = CITY_OPTIONS[2],
                    !.Description = <<"a",".","b">>,
                    !.Date = Strftime(Day(2024, 6, 2)),
                    !.EventDate = Strftime(Day(2024, 6, 1))],
     [CsvRow EXCEPT !.Description = <<>>, !.EventDate = Strftime(Day(2024, 4, 1))],
     [CsvRow EXCEPT !.Description = <<"b">>, !.EventDate = <<>>,
                    !.Date = Strftime(Day(2024, 1, 5))],
     [CsvRow EXCEPT !.Description = <<"a","b">>, !.Date = <<>>,
                    !.EventDate = <<"2","0","2","4","-","0","2","-","3","0">>,
                    !.Resolved = <<"T","R","U","E">>]}

\* a file written before the EventDate and Resolved columns existed
OldFile == [exists |-> TRUE, header |-> <<"ID", "Type", "Description", "Date">>,
            rows |-> << [ID |-> <<"1">>, Type |-> <<"l","o","s","t">>,
                         Description |-> <<"A","b">>,
                         Date |-> Strftime(Day(2024, 3, 2))] >>]

ExternalFiles ==
    {[exists |-> TRUE, header |-> columns, rows |-> rs] :
        rs \in UNION {[1..k -> SampleRows] : k \in 0..FilterRows}} \cup {OldFile}

RangeA == [EmptyFilter EXCEPT !.start_date = Day(2024, 3, 1), !.end_date = Day(2024, 4, 1)]
RangeB == [EmptyFilter EXCEPT !.start_date = Day(2024, 3, 2), !.end_date = Day(2024, 3, 31)]
Keywords == {<<"a">>, <<"A">>, <<".">>, <<"a","b">>, <<"a",".">>}
SearchInputs ==
    {EmptyFilter, RangeA, RangeB}
    \cup {[EmptyFilter EXCEPT !.search_query = k] : k \in Keywords}
    \cup {[EmptyFilter EXCEPT !.filter_type = TYPE_OPTIONS[1]],
          [EmptyFilter EXCEPT !.filter_category = CATEGORY_OPTIONS[2]],
          [EmptyFilter EXCEPT !.filter_city = CITY_OPTIONS[3]],
          [RangeA EXCEPT !.filter_type = TYPE_OPTIONS[2], !.search_query = <<"a">>]}

Search == SearchPage(SearchInputs)

InitFilter ==
    /\ file \in ExternalFiles
    /\ df = load_data(file)
    /\ imageFiles = {}
    /\ page = "search"
    /\ msg = ""
    /\ last = NoRun
    /\ shown = <<>>
    /\ wdf = <<>>
    /\ wpc = <<>>
    /\ wlog = <<>>

NextFilter == Search \/ GoSearch

SpecFilter == InitFilter /\ [][NextFilter]_vars

(***************************************************************************)
(* Properties of the filters.                                              *)
(***************************************************************************)
\* s and t hold the same rows, each as often
SameRows(s, t) ==
    /\ Len(s) = Len(t)
    /\ \E p \in [1..Len(s) -> 1..Len(s)] :
        /\ \A i, j \in 1..Len(s) : i # j => p[i] # p[j]
        /\ \A i \in 1..Len(s) : s[i] = t[p[i]]

\* rows in descending order of Date
DescendingByDate(s) ==
    \A i, j \in 1..Len(s) :
        (i < j /\ s[i].Date # NaN /\ s[j].Date # NaN) => ~TextLess(s[i].Date, s[j].Date)

HasEventDate(r) == ToDatetime(r.EventDate) # NaT
Searched == last.op = "search"

\* C5 as stated: the empty filter returns every row of the table, in
\* descending order of Date.
C5_EmptyFilterReturnsAll ==
    (Searched /\ last.args = EmptyFilter) =>
        /\ SameRows(shown, df)
        /\ DescendingByDate(shown)

\* two consecutive searches with the same filter on the same table show the
\* same rows
SameFilterSameRows ==
    (last.op = "search" /\ last'.op = "search" /\ last'.args = last.args /\ df' = df)
        => SameRows(shown', shown)

\* C5 as amended: the empty filter returns every row of the table whose
\* EventDate parses as a date (rows whose EventDate is missing or
\* unparseable are dropped), in descending order of Date; and applying the
\* same filter twice to the same table yields the same rows.
C5_EmptyFilterReturnsDated ==
    /\ [] ((Searched /\ last.args = EmptyFilter) =>
              /\ SameRows(shown, SelectSeq(df, HasEventDate))
              /\ DescendingByDate(shown))
    /\ [][SameFilterSameRows]_vars

\* C5 witness: the empty filter was applied to a table of two rows with
\* different Dates, both with an EventDate, stored oldest first.
C5_Witness ==
    /\ Searched /\ last.args = EmptyFilter
    /\ Len(df) = 2 /\ Len(shown) = 2
    /\ df[1].Date # NaN /\ df[2].Date # NaN
    /\ TextLess(df[1].Date, df[2].Date)

OnlyDateActive(a) ==
    /\ a.search_query = <<>>
    /\ a.filter_type = All /\ a.filter_category = All /\ a.filter_city = All

\* from <= d <= to, read off the YYYY-MM-DD text
WithinRange(r, a) ==
    /\ HasEventDate(r)
    /\ ~TextLess(r.EventDate, Strftime(a.start_date))
    /\ ~TextLess(Strftime(a.end_date), r.EventDate)

\* C6: with the other filters inactive, the rows returned are exactly the
\* rows whose EventDate d has from <= d <= to, both ends included; rows
\* with a missing or unparseable EventDate are not returned.
C6_DateRangeInclusive ==
    (Searched /\ OnlyDateActive(last.args)) =>
        SameRows(shown, SelectSeq(df, LAMBDA r : WithinRange(r, last.args)))

\* C6 witness: a date-only search over a table holding a row dated on the
\* last day of the range, which is shown, and a row with no EventDate.
C6_Witness ==
    /\ Searched /\ OnlyDateActive(last.args)
    /\ Len(df) = 2 /\ Len(shown) = 1
    /\ shown[1].EventDate = Strftime(last.args.end_date)
    /\ \E i \in 1..2 : df[i].EventDate = NaN

\* k occurs in text as a literal substring, letter case ignored
ContainsLiteral(text, k) ==
    \E off \in 0..(Len(text) - Len(k)) :
        \A j \in 1..Len(k) : LowerChar(text[off + j]) = LowerChar(k[j])

OnlyKeywordActive(a) ==
    /\ a.search_query # <<>>
    /\ a.filter_type = All /\ a.filter_category = All /\ a.filter_city = All
    /\ a.start_date = EmptyFilter.start_date /\ a.end_date = EmptyFilter.end_date

\* C7: the keyword filter returns exactly the rows (among those the date
\* filter keeps) whose Description contains the keyword as a literal
\* substring, letter case ignored; rows with no Description are left out.
C7_KeywordLiteralSubstring ==
    (Searched /\ OnlyKeywordActive(last.args)) =>
        SameRows(shown,
                 SelectSeq(df, LAMBDA r : /\ HasEventDate(r)
                                          /\ r.Description # NaN
                                          /\ ContainsLiteral(r.Description,
                                                             last.args.search_query)))

(***************************************************************************)
(* Properties of one session.                                              *)
(***************************************************************************)
\* the table the latest run loaded
Loaded == load_data(last.pre)
\* d without its k-th row
Without(d, k) == SubSeq(d, 1, k - 1) \o SubSeq(d, k + 1, Len(d))
DeleteSucceeded == last.op = "delete" /\ msg = "Announcement deleted successfully!"
NothingChanged ==
    /\ file = last.pre
    /\ df = Loaded
    /\ imageFiles = last.preImages
    /\ last.saves = 0

\* C1: a delete of record R with R's own password removes exactly R: the
\* table afterwards, in memory and persisted, is the table before without
\* that one row.
C1_DeleteRemovesExactlyR ==
    (DeleteSucceeded /\ last.entered = last.row.DeletePassword) =>
        \E k \in 1..Len(Loaded) :
            /\ Loaded[k] = last.row
            /\ df = Without(Loaded, k)
            /\ load_data(file) = Without(Loaded, k)

\* C2: a delete attempt with a password that is not exactly the stored one
\* reports the error and changes neither the in-memory nor the persisted
\* table, and does not save.
C2_WrongPasswordChangesNothing ==
    (last.op = "delete" /\ last.entered # last.row.DeletePassword) =>
        /\ msg = "Incorrect password. Cannot delete this announcement."
        /\ NothingChanged

\* C2 witness: a delete was attempted on a stored row with a password that
\* differs from the stored one only in letter case.
C2_Witness ==
    /\ last.op = "delete"
    /\ last.row.DeletePassword # NaN
    /\ last.entered # last.row.DeletePassword
    /\ Lower(last.entered) = Lower(last.row.DeletePassword)
    /\ Len(Loaded) = 2

\* what C3 takes for a valid form and C4 for an invalid one
ClaimValid(in) ==
    /\ in.description # <<>>
    /\ Len(in.phone) = 8
    /\ \A i \in 1..Len(in.phone) : Has(DigitChars, in.phone[i])
    /\ in.delete_password # <<>>

\* C3: a create with valid input appends exactly one row, leaves the other
\* rows as they were, and a load after the save returns the new row with
\* every field as supplied, but Date (the current date) and Type (lowercased).
C3_CreateAppendsVerbatim ==
    (last.op = "submit" /\ ClaimValid(last.input)) =>
        LET T == load_data(file)
            in == last.input
        IN /\ Len(T) = Len(Loaded) + 1
           /\ SubSeq(T, 1, Len(Loaded)) = Loaded
           /\ T[Len(T)].Type = Lower(in.post_type)
           /\ T[Len(T)].Category = in.category
           /\ T[Len(T)].City = in.city
           /\ T[Len(T)].Description = in.description
           /\ T[Len(T)].Phone = in.phone
           /\ T[Len(T)].Date = Strftime(in.today)
           /\ T[Len(T)].EventDate = Strftime(in.event_date)
           /\ T[Len(T)].DeletePassword = in.delete_password

\* C4: a create whose input fails validation reports a validation error and
\* writes nothing: no image, no row, tables unchanged.
C4_InvalidCreateWritesNothing ==
    (last.op = "submit" /\ ~ClaimValid(last.input)) =>
        /\ msg \in {"Please enter a description.",
                    "Phone number must be exactly 8 digits.",
                    "Please set a delete password."}
        /\ NothingChanged

\* C4 witness: a form with an 8-character phone holding a non-digit was
\* submitted to a table that has rows.
C4_Witness ==
    /\ last.op = "submit"
    /\ Len(last.input.phone) = 8
    /\ ~IsDigit(last.input.phone)
    /\ Len(Loaded) > 0

\* every cell of d is text
WellFormed(d) ==
    \A i \in 1..Len(d) : \A c \in ColumnSet \ {"Resolved"} : d[i][c] # NaN

\* C8: for a well-formed table T just saved, loading the file and saving
\* again gives the same file: save(load(save(T))) = save(T).
C8_RoundTrip ==
    (last.saves = 1 /\ WellFormed(df)) => save_data(load_data(file)) = file

\* C10: every stored row has a non-empty Description, a Phone of exactly 8
\* digits and a non-empty DeletePassword.
C10_StoredRowsValid ==
    \A i \in 1..Len(file.rows) :
        /\ file.rows[i].Description # <<>>
        /\ Len(file.rows[i].Phone) = 8
        /\ IsDigit(file.rows[i].Phone)
        /\ file.rows[i].DeletePassword # <<>>

(***************************************************************************)
(* Two sessions.  Streamlit runs each session's script in its own thread,  *)
(* with its own module-level df; a run loads the file, and what its button *)
(* handler saves is the table it loaded, changed.  Nothing orders the runs *)
(* of different sessions.                                                  *)
(***************************************************************************)
Writers == {1, 2}

\* the form session w submits
ConcInput(w) == IF w = 1 THEN ValidForm
                ELSE [ValidForm EXCEPT !.description = <<"c","a","t">>]
ConcEntered == {<<"p">>, <<"P">>}
NoLog == [op |-> "none", row |-> NoRow, ok |-> FALSE, stale |-> FALSE, runs |-> 0]

\* df = load_data() at the top of a script run
WLoad(w) ==
    /\ wpc[w] = "idle"
    /\ wlog[w].runs < MaxRuns
    /\ wdf' = [wdf EXCEPT ![w] = load_data(file)]
    /\ wpc' = [wpc EXCEPT ![w] = "loaded"]
    /\ UNCHANGED <<file, df, imageFiles, page, msg, last, shown, wlog>>

\* the end of a script run: its df is dropped with its module namespace
EndRun(w) ==
    /\ wpc' = [wpc EXCEPT ![w] = "idle"]
    /\ wdf' = [wdf EXCEPT ![w] = <<>>]
    /\ UNCHANGED <<df, imageFiles, page, msg, last, shown>>

\* the Submit handler of report_page in session w, with a valid form
WSubmit(w) ==
    /\ wpc[w] = "loaded"
    /\ ValidationError(ConcInput(w)) = ""
    /\ Len(wdf[w]) < MaxRows
    /\ LET row == new_post(wdf[w], ConcInput(w), save_images(<<>>, <<>>))
       IN /\ file' = save_data(AppendRow(wdf[w], row))
          /\ wlog' = [wlog EXCEPT ![w] = [op |-> "submit", row |-> row, ok |-> TRUE,
                                          stale |-> wdf[w] # load_data(file),
                                          runs |-> wlog[w].runs + 1]]
    /\ EndRun(w)

\* the Delete handler of search_page in session w
WDelete(w) ==
    /\ wpc[w] = "loaded"
    /\ \E k \in 1..Len(Filtered(wdf[w], EmptyFilter)), entered_password \in ConcEntered :
        LET row == Filtered(wdf[w], EmptyFilter)[k]
        IN IF PasswordMatches(entered_password, row)
           THEN /\ file' = save_data(DropID(wdf[w], row.ID))
                /\ wlog' = [wlog EXCEPT ![w] = [op |-> "delete", row |-> row, ok |-> TRUE,
                                                stale |-> wdf[w] # load_data(file),
                                                runs |-> wlog[w].runs + 1]]
           ELSE /\ wlog' = [wlog EXCEPT ![w] = [op |-> "delete", row |-> row, ok |-> FALSE,
                                                stale |-> wdf[w] # load_data(file),
                                                runs |-> wlog[w].runs + 1]]
                /\ file' = file
    /\ EndRun(w)

InitConc ==
    /\ file = NoFile
    /\ df = <<>>
    /\ imageFiles = {}
    /\ page = "home"
    /\ msg = ""
    /\ last = NoRun
    /\ shown = <<>>
    /\ wdf = [w \in Writers |-> <<>>]
    /\ wpc = [w \in Writers |-> "idle"]
    /\ wlog = [w \in Writers |-> NoLog]

NextConc == \E w \in Writers : WLoad(w) \/ WSubmit(w) \/ WDelete(w)

SpecConc == InitConc /\ [][NextConc]_vars

(***************************************************************************)
(* Properties of two sessions.                                             *)
(***************************************************************************)
\* a row as a load finds it after it was saved
Reloaded(row) == load_data(save_data(<<row>>))[1]
RowIn(row, d) == \E i \in 1..Len(d) : d[i] = row

\* C9, second half: a successful create or delete by a session whose loaded
\* table is still what the file holds (no other session saved since its
\* load, as with a single writer) loses nothing: the file then holds the
\* table it held plus the created row, or minus the rows of the deleted ID.
NoLossStep ==
    \A w \in Writers :
        (wpc[w] = "loaded" /\ wpc'[w] = "idle" /\ wlog'[w].ok /\ wdf[w] = load_data(file)) =>
            IF wlog'[w].op = "submit"
            THEN load_data(file') = Append(load_data(file), Reloaded(wlog'[w].row))
            ELSE /\ ~RowIn(wlog'[w].row, load_data(file'))
                 /\ load_data(file') =
                        SelectSeq(load_data(file), LAMBDA r : r.ID # wlog'[w].row.ID)
C9_NoLossWithoutOverlap == [][NoLossStep]_vars

\* C9, first half (witness): both sessions' latest runs were creates that
\* reported success, one of them saved over a file that had changed since
\* its load, and the file holds its row but not the other's: a lost update.
C9_LostUpdate ==
    /\ \A w \in Writers : wpc[w] = "idle" /\ wlog[w].op = "submit" /\ wlog[w].ok
    /\ \E w, o \in Writers :
        /\ w # o
        /\ wlog[w].stale
        /\ ~RowIn(Reloaded(wlog[o].row), load_data(file))
        /\ RowIn(Reloaded(wlog[w].row), load_data(file))

====
